---- MODULE Spec2Model ----
(***************************************************************************)
(* Model of the wgpu-surfaces examples: the winit application handler      *)
(* (ch02/common/app.rs) driving the State of the parametric-surface        *)
(* example (ch03/01_parametric_surface/state.rs) or of the                 *)
(* multiple-simple-surfaces example                                        *)
(* (ch02/02_multiple_simple_surfaces/state.rs).                            *)
(*                                                                         *)
(* GPU objects are never read back by the program, so a write to one is    *)
(* modelled as an entry of `calls`, the ordered list of the calls the last *)
(* handler made.  f32 values are integers in units of 2^-27 with IEEE      *)
(* round-to-nearest-even to 24 significant bits.  FpsCounter only prints   *)
(* and is left out.                                                        *)
(***************************************************************************)
EXTENDS Integers, Sequences, FiniteSets, TLC

VARIABLES
    example,            \* which example's State the Application owns
    sample_count,       \* Application.sample_count
    state,              \* Application.state: <<>> is None, <<s>> is Some(s)
    render_start_time,  \* Application.render_start_time: <<>> or <<instant>>
    now,                \* the monotonic clock read by Instant::now()
    redraw_requested,   \* the window has a pending request_redraw()
    exit_requested,     \* event_loop.exit() has been called
    running,            \* the event loop has not returned yet
    frame,              \* parity of the number of RedrawRequested handled
    event,              \* the event handled by the last step, if any
    calls,              \* the calls made while handling it, in order
    ss_data,            \* the ISurfaceOutput given to create_vertices
    returned            \* <<>> before the call, then <<its outcome>>

vars == <<example, sample_count, state, render_start_time, now,
          redraw_requested, exit_requested, running, frame, event, calls,
          ss_data, returned>>

-----------------------------------------------------------------------------
(* Bounds *)

MaxDim == 2        \* window widths and heights range over 0..MaxDim
MaxTime == 1       \* the clock of Spec ranges over 0..MaxTime
MaxRes == 9        \* 'q'/'w' are pressed only below this resolution
MaxSpeedUps == 1   \* speed-up keys are pressed only below 1.0 + MaxSpeedUps/10
MaxLen == 2        \* the lists of an ISurfaceOutput have at most MaxLen entries
MaxClock == 10     \* the clock of SpecTimer ranges over 0..MaxClock
MaxSurfaceType == 1 \* parametric surface types range over 0..MaxSurfaceType and 22

-----------------------------------------------------------------------------
(* f32 arithmetic, in units of 2^-27 *)

F32Unit == 2^27

\* number of low bits an f32 cannot keep of a magnitude n
RECURSIVE F32Shift(_)
F32Shift(n) == IF n < 2^24 THEN 0 ELSE 1 + F32Shift(n \div 2)

\* n rounded to a multiple of p, ties to the even multiple
F32RoundTo(n, p) ==
    LET q == n \div p
        r == n % p
        up == (2 * r > p) \/ (2 * r = p /\ q % 2 = 1)
    IN  (IF up THEN q + 1 ELSE q) * p

F32RoundMag(n) == F32RoundTo(n, 2^F32Shift(n))

F32Round(n) == IF n < 0 THEN 0 - F32RoundMag(0 - n) ELSE F32RoundMag(n)

F32Add(a, b) == F32Round(a + b)
F32Sub(a, b) == F32Round(a - b)
\* product of an f32 and a whole number of seconds (Duration::as_secs_f32)
F32MulSecs(a, secs) == F32Round(a * secs)

F32One == F32Unit
\* the f32 nearest to 0.1 is 13421773 * 2^-27 (0x3DCCCCCD)
F32Tenth == 13421773

-----------------------------------------------------------------------------
(* Events and calls *)

Call(op, args) == [op |-> op, args |-> args]

NoEvent == [kind |-> "None", physical_key |-> "-", logical_key |-> "-",
            state |-> "-", width |-> 0, height |-> 0, surface |-> "-"]

KeyboardInput(physical, logical, st) ==
    [NoEvent EXCEPT !.kind = "KeyboardInput", !.physical_key = physical,
                    !.logical_key = logical, !.state = st]

Resized(w, h) == [NoEvent EXCEPT !.kind = "Resized", !.width = w, !.height = h]

CloseRequested == [NoEvent EXCEPT !.kind = "CloseRequested"]

\* surface is what Surface::get_current_texture returns during this frame
RedrawRequested(surface) ==
    [NoEvent EXCEPT !.kind = "RedrawRequested", !.surface = surface]

Focused == [NoEvent EXCEPT !.kind = "Focused"]

SurfaceResults == {"Ok", "Lost", "Outdated", "OutOfMemory", "Timeout", "Other"}

Size(w, h) == [width |-> w, height |-> h]

-----------------------------------------------------------------------------
(* surface_data: the mesh generators (not part of the sources) *)

\* a mesh is identified by the parameters it was generated from
ParametricSurfaceNew(ps) ==
    [mesh     |-> <<ps.surface_type, ps.colormap_direction,
                    ps.u_resolution, ps.v_resolution>>,
     indices  |-> 6 * ps.u_resolution * ps.v_resolution,
     indices2 |-> 4 * ps.u_resolution * ps.v_resolution]

SimpleSurfaceNew(ss) ==
    [mesh     |-> <<ss.surface_type, ss.colormap_direction, ss.t>>,
     indices  |-> 6,
     indices2 |-> 8]

DefaultResolutions == 8 .. (MaxRes - 1)

\* create_vertices: two vertex lists (colors, colors2) and the two index lists
create_vertices(out) == <<out.mesh, out.mesh, out.indices, out.indices2>>

-----------------------------------------------------------------------------
(* create_vertices, element by element *)

\* an ISurfaceOutput: four per-vertex lists and two index lists
SurfaceOutput(positions, normals, colors, colors2, indices, indices2) ==
    [positions |-> positions, normals |-> normals, colors |-> colors,
     colors2 |-> colors2, indices |-> indices, indices2 |-> indices2]

NoSurface == SurfaceOutput(<<>>, <<>>, <<>>, <<>>, <<>>, <<>>)

Vertex(position, normal, color) ==
    [position |-> position, normal |-> normal, color |-> color]

\* an index past the end of a Vec panics
Panicked == [panicked |-> TRUE, value |-> <<>>]
Returns(value) == [panicked |-> FALSE, value |-> value]

\* the iterations from i on of: for i in 0..ss_data.positions.len() { ... };
\* lists are indexed from 1 here
RECURSIVE PushVertices(_, _, _, _)
PushVertices(ss, i, data, data2) ==
    IF i > Len(ss.positions) THEN Returns(<<data, data2>>)
    ELSE IF i > Len(ss.normals) \/ i > Len(ss.colors) THEN Panicked
    ELSE IF i > Len(ss.colors2) THEN Panicked
    ELSE PushVertices(ss, i + 1,
             Append(data, Vertex(ss.positions[i], ss.normals[i], ss.colors[i])),
             Append(data2, Vertex(ss.positions[i], ss.normals[i],
                                  ss.colors2[i])))

\* the tuple returned with indices and indices2 exchanged
create_verticesSwapsIndices(ss) ==
    LET Tuple(pushed) ==
            IF pushed.panicked THEN Panicked
            ELSE Returns(<<pushed.value[1], pushed.value[2],
                           ss.indices2, ss.indices>>)
    IN  Tuple(PushVertices(ss, 1, <<>>, <<>>))

\* create_vertices on the lists themselves: the outcome of the call
create_verticesOutcome(ss) ==
    LET Tuple(pushed) ==
            IF pushed.panicked THEN Panicked
            ELSE Returns(<<pushed.value[1], pushed.value[2],
                           ss.indices, ss.indices2>>)
    IN  Tuple(PushVertices(ss, 1, <<>>, <<>>))

-----------------------------------------------------------------------------
(* State::new *)

\* InitWgpu::init_wgpu followed by the struct literal of State::new.
\* A texture view is identified by the size it was created with, project_mat
\* by the width and height of its aspect ratio.
\* State::new with t0 at the start of the clock
ParametricNewTimerFromBoot(window_size, samples, t, ures, vres) ==
    LET ps   == [surface_type |-> 0, colormap_direction |-> 0,
                 u_resolution |-> ures, v_resolution |-> vres]
        data == create_vertices(ParametricSurfaceNew(ps))
    IN  [size                |-> window_size,
         config              |-> window_size,
         sample_count        |-> samples,
         project_mat         |-> window_size,
         msaa_texture_view   |-> window_size,
         depth_texture_view  |-> window_size,
         indices_lens        |-> <<data[3], data[4]>>,
         plot_type           |-> 1,
         update_buffers      |-> FALSE,
         recreate_buffers    |-> FALSE,
         rotation_speed      |-> F32One,
         t0                  |-> 0,
         random_shape_change |-> 1,
         parametric_surface  |-> ps]

ParametricNew(window_size, samples, t, ures, vres) ==
    LET ps   == [surface_type |-> 0, colormap_direction |-> 0,
                 u_resolution |-> ures, v_resolution |-> vres]
        data == create_vertices(ParametricSurfaceNew(ps))
    IN  [size                |-> window_size,
         config              |-> window_size,
         sample_count        |-> samples,
         project_mat         |-> window_size,
         msaa_texture_view   |-> window_size,
         depth_texture_view  |-> window_size,
         indices_lens        |-> <<data[3], data[4]>>,
         plot_type           |-> 1,
         update_buffers      |-> FALSE,
         recreate_buffers    |-> FALSE,
         rotation_speed      |-> F32One,
         t0                  |-> t,
         random_shape_change |-> 1,
         parametric_surface  |-> ps]

MultiNew(window_size, samples) ==
    LET ss   == [surface_type |-> 0, colormap_direction |-> 0, t |-> 0]
        data == create_vertices(SimpleSurfaceNew(ss))
    IN  [size               |-> window_size,
         config             |-> window_size,
         sample_count       |-> samples,
         project_mat        |-> window_size,
         msaa_texture_view  |-> window_size,
         depth_texture_view |-> window_size,
         indices_lens       |-> <<data[3], data[4]>>,
         plot_type          |-> 1,
         recreate_buffers   |-> FALSE,
         animation_speed    |-> F32One,
         rotation_speed     |-> F32One,
         x_num              |-> 100,
         z_num              |-> 100,
         objects_count      |-> 100 * 100,
         simple_surface     |-> ss]

\* the byte sizes of State.uniform_buffers, in the order of the vec
UniformBufferSizes(ex, s) ==
    IF ex = "parametric" THEN <<192, 48, 16>>
    ELSE <<64, 64 * s.objects_count, 64 * s.objects_count, 48, 16>>

-----------------------------------------------------------------------------
(* State::resize *)

\* resize with the size stored before the guard
resizeStoresAnySize(s, new_size) ==
    IF new_size.width > 0 /\ new_size.height > 0
    THEN [state |-> [s EXCEPT
                       !.size = new_size,
                       !.config = new_size,
                       !.project_mat = new_size,
                       !.depth_texture_view = new_size,
                       !.msaa_texture_view =
                           IF s.sample_count > 1 THEN new_size ELSE @],
          calls |-> <<Call("configure", <<new_size.width, new_size.height>>),
                      Call("create_depth_view",
                           <<new_size.width, new_size.height>>)>>
                    \o (IF s.sample_count > 1
                        THEN <<Call("create_msaa_texture_view",
                                    <<new_size.width, new_size.height>>)>>
                        ELSE <<>>)]
    ELSE [state |-> [s EXCEPT !.size = new_size], calls |-> <<>>]

\* resize configuring the surface before config.width and config.height are set
resizeStaleConfigure(s, new_size) ==
    IF new_size.width > 0 /\ new_size.height > 0
    THEN [state |-> [s EXCEPT
                       !.size = new_size,
                       !.config = new_size,
                       !.project_mat = new_size,
                       !.depth_texture_view = new_size,
                       !.msaa_texture_view =
                           IF s.sample_count > 1 THEN new_size ELSE @],
          calls |-> <<Call("configure", <<s.config.width, s.config.height>>),
                      Call("create_depth_view",
                           <<new_size.width, new_size.height>>)>>
                    \o (IF s.sample_count > 1
                        THEN <<Call("create_msaa_texture_view",
                                    <<new_size.width, new_size.height>>)>>
                        ELSE <<>>)]
    ELSE [state |-> s, calls |-> <<>>]

\* resize guarded by either dimension being positive
resizeEitherDimension(s, new_size) ==
    IF new_size.width > 0 \/ new_size.height > 0
    THEN [state |-> [s EXCEPT
                       !.size = new_size,
                       !.config = new_size,
                       !.project_mat = new_size,
                       !.depth_texture_view = new_size,
                       !.msaa_texture_view =
                           IF s.sample_count > 1 THEN new_size ELSE @],
          calls |-> <<Call("configure", <<new_size.width, new_size.height>>),
                      Call("create_depth_view",
                           <<new_size.width, new_size.height>>)>>
                    \o (IF s.sample_count > 1
                        THEN <<Call("create_msaa_texture_view",
                                    <<new_size.width, new_size.height>>)>>
                        ELSE <<>>)]
    ELSE [state |-> s, calls |-> <<>>]

resize(s, new_size) ==
    IF new_size.width > 0 /\ new_size.height > 0
    THEN [state |-> [s EXCEPT
                       !.size = new_size,
                       !.config = new_size,
                       !.project_mat = new_size,
                       !.depth_texture_view = new_size,
                       !.msaa_texture_view =
                           IF s.sample_count > 1 THEN new_size ELSE @],
          calls |-> <<Call("configure", <<new_size.width, new_size.height>>),
                      Call("create_depth_view",
                           <<new_size.width, new_size.height>>)>>
                    \o (IF s.sample_count > 1
                        THEN <<Call("create_msaa_texture_view",
                                    <<new_size.width, new_size.height>>)>>
                        ELSE <<>>)]
    ELSE [state |-> s, calls |-> <<>>]

-----------------------------------------------------------------------------
(* State::input *)

\* a matched key arm returning false
HandledReturnsFalse(s) == [state |-> s, handled |-> FALSE]

Handled(s) == [state |-> s, handled |-> TRUE]
NotHandled(s) == [state |-> s, handled |-> FALSE]

\* the decrement without the clamp at 0.0
SpeedDownNoClamp(x) == F32Sub(x, F32Tenth)

\* x -= 0.1; if x < 0.0 { x = 0.0 }
SpeedDown(x) ==
    LET Clamp(y) == IF y < 0 THEN 0 ELSE y IN Clamp(F32Sub(x, F32Tenth))
SpeedUp(x) == F32Add(x, F32Tenth)

\* the decrement without the floor at 8
ResolutionDownNoFloor(r) == r - 1

\* r -= 1; if r < 8 { r = 8 }
ResolutionDown(r) == IF r - 1 < 8 THEN 8 ELSE r - 1

\* a cycle that skips a mode
NextPlotTypeSkips(p) == (p + 2) % 3

NextPlotType(p) == (p + 1) % 3

ParametricInput(s, e) ==
    IF e.kind = "KeyboardInput" /\ e.state = "Pressed"
    THEN LET key == e.logical_key
             ps  == s.parametric_surface
         IN  CASE key = "Space" ->
                    Handled([s EXCEPT !.plot_type = NextPlotType(@)])
               [] key = "Control" ->
                    Handled([s EXCEPT
                        !.parametric_surface.surface_type = (@ + 1) % 23,
                        !.update_buffers = TRUE])
               [] key = "Shift" ->
                    Handled([s EXCEPT
                        !.parametric_surface.colormap_direction = (@ + 1) % 3,
                        !.update_buffers = TRUE])
               [] key = "Alt" ->
                    Handled([s EXCEPT !.random_shape_change = (@ + 1) % 2])
               [] key = "q" ->
                    Handled([s EXCEPT
                        !.parametric_surface.u_resolution = @ + 1,
                        !.recreate_buffers = TRUE])
               [] key = "a" ->
                    Handled([s EXCEPT
                        !.parametric_surface.u_resolution = ResolutionDown(@),
                        !.recreate_buffers = TRUE])
               [] key = "w" ->
                    Handled([s EXCEPT
                        !.parametric_surface.v_resolution = @ + 1,
                        !.recreate_buffers = TRUE])
               [] key = "s" ->
                    Handled([s EXCEPT
                        !.parametric_surface.v_resolution = ResolutionDown(@),
                        !.recreate_buffers = TRUE])
               [] key = "e" ->
                    Handled([s EXCEPT !.rotation_speed = SpeedUp(@)])
               [] key = "d" ->
                    Handled([s EXCEPT !.rotation_speed = SpeedDown(@)])
               [] OTHER -> NotHandled(s)
    ELSE NotHandled(s)

MultiInput(s, e) ==
    IF e.kind = "KeyboardInput" /\ e.state = "Pressed"
    THEN LET key == e.logical_key
         IN  CASE key = "Space" ->
                    Handled([s EXCEPT !.plot_type = NextPlotType(@)])
               [] key = "Control" ->
                    Handled([s EXCEPT
                        !.simple_surface.surface_type = (@ + 1) % 3])
               [] key = "Alt" ->
                    Handled([s EXCEPT
                        !.simple_surface.colormap_direction = (@ + 1) % 3])
               [] key = "q" ->
                    Handled([s EXCEPT !.animation_speed = SpeedUp(@)])
               [] key = "a" ->
                    Handled([s EXCEPT !.animation_speed = SpeedDown(@)])
               [] key = "w" ->
                    Handled([s EXCEPT !.rotation_speed = SpeedUp(@)])
               [] key = "s" ->
                    Handled([s EXCEPT !.rotation_speed = SpeedDown(@)])
               [] OTHER -> NotHandled(s)
    ELSE NotHandled(s)

\* input consuming every key press
inputAnyKeyPress(ex, s, e) ==
    IF e.kind = "KeyboardInput" /\ e.state = "Pressed"
    THEN Handled(s) ELSE NotHandled(s)

input(ex, s, e) ==
    IF ex = "parametric" THEN ParametricInput(s, e) ELSE MultiInput(s, e)

-----------------------------------------------------------------------------
(* State::update *)

\* the three 64-byte matrices written to uniform_buffers[0]
ParametricUniformWrites(dt1) ==
    <<Call("create_model_mat", <<dt1>>),
      Call("write_uniform", <<0, 0, 64>>),
      Call("write_uniform", <<0, 64, 64>>),
      Call("write_uniform", <<0, 128, 64>>)>>

\* the rewrite of vertex_buffers[0] alone
WriteVertexBuffersFirstOnly(data) ==
    <<Call("write_vertex", <<0>> \o data[1])>>

WriteVertexBuffers(data) ==
    <<Call("write_vertex", <<0>> \o data[1]),
      Call("write_vertex", <<1>> \o data[2])>>

\* the loop recreating the vertex buffers only
RecreateBuffersVertexOnly(data) ==
    <<Call("destroy_vertex", <<0>>), Call("create_vertex", <<0>> \o data[1]),
      Call("destroy_vertex", <<1>>), Call("create_vertex", <<1>> \o data[2])>>

\* for i in 0..2: destroy and recreate vertex_buffers[i] and index_buffers[i]
RecreateBuffers(data) ==
    <<Call("destroy_vertex", <<0>>), Call("create_vertex", <<0>> \o data[1]),
      Call("destroy_index", <<0>>),  Call("create_index", <<0, data[3]>>),
      Call("destroy_vertex", <<1>>), Call("create_vertex", <<1>> \o data[2]),
      Call("destroy_index", <<1>>),  Call("create_index", <<1, data[4]>>)>>

TimerPeriod == 5

\* update making the timed change whatever random_shape_change is
ParametricUpdateIgnoresToggle(s, dt, t, random) ==
    LET dt1 == F32MulSecs(s.rotation_speed, dt)
        d1  == create_vertices(ParametricSurfaceNew(s.parametric_surface))
        s1  == IF s.recreate_buffers
               THEN [s EXCEPT !.indices_lens = <<d1[3], d1[4]>>,
                              !.recreate_buffers = FALSE]
               ELSE s
        c1  == IF s.recreate_buffers THEN RecreateBuffers(d1) ELSE <<>>
        timed == t - s1.t0 >= TimerPeriod
        s2  == IF timed
               THEN [s1 EXCEPT !.parametric_surface.surface_type = random,
                               !.t0 = t]
               ELSE s1
        d2  == create_vertices(ParametricSurfaceNew(s2.parametric_surface))
        c2  == IF timed THEN WriteVertexBuffers(d2) ELSE <<>>
        s3  == IF s2.update_buffers
               THEN [s2 EXCEPT !.update_buffers = FALSE]
               ELSE s2
        c3  == IF s2.update_buffers THEN WriteVertexBuffers(d2) ELSE <<>>
    IN  [state |-> s3,
         calls |-> ParametricUniformWrites(dt1) \o c1 \o c2 \o c3]

\* update leaving update_buffers set after the rewrite
ParametricUpdateKeepsDirty(s, dt, t, random) ==
    LET dt1 == F32MulSecs(s.rotation_speed, dt)
        d1  == create_vertices(ParametricSurfaceNew(s.parametric_surface))
        s1  == IF s.recreate_buffers
               THEN [s EXCEPT !.indices_lens = <<d1[3], d1[4]>>,
                              !.recreate_buffers = FALSE]
               ELSE s
        c1  == IF s.recreate_buffers THEN RecreateBuffers(d1) ELSE <<>>
        timed == t - s1.t0 >= TimerPeriod /\ s1.random_shape_change = 1
        s2  == IF timed
               THEN [s1 EXCEPT !.parametric_surface.surface_type = random,
                               !.t0 = t]
               ELSE s1
        d2  == create_vertices(ParametricSurfaceNew(s2.parametric_surface))
        c2  == IF timed THEN WriteVertexBuffers(d2) ELSE <<>>
        c3  == IF s2.update_buffers THEN WriteVertexBuffers(d2) ELSE <<>>
    IN  [state |-> s2,
         calls |-> ParametricUniformWrites(dt1) \o c1 \o c2 \o c3]

ParametricUpdate(s, dt, t, random) ==
    LET dt1 == F32MulSecs(s.rotation_speed, dt)
        \* recreate vertex and index buffers
        d1  == create_vertices(ParametricSurfaceNew(s.parametric_surface))
        s1  == IF s.recreate_buffers
               THEN [s EXCEPT !.indices_lens = <<d1[3], d1[4]>>,
                              !.recreate_buffers = FALSE]
               ELSE s
        c1  == IF s.recreate_buffers THEN RecreateBuffers(d1) ELSE <<>>
        \* update vertex buffer for every 5 seconds
        timed == t - s1.t0 >= TimerPeriod /\ s1.random_shape_change = 1
        s2  == IF timed
               THEN [s1 EXCEPT !.parametric_surface.surface_type = random,
                               !.t0 = t]
               ELSE s1
        d2  == create_vertices(ParametricSurfaceNew(s2.parametric_surface))
        c2  == IF timed THEN WriteVertexBuffers(d2) ELSE <<>>
        \* update vertex buffer when data changed
        s3  == IF s2.update_buffers
               THEN [s2 EXCEPT !.update_buffers = FALSE]
               ELSE s2
        c3  == IF s2.update_buffers THEN WriteVertexBuffers(d2) ELSE <<>>
    IN  [state |-> s3,
         calls |-> ParametricUniformWrites(dt1) \o c1 \o c2 \o c3]

\* the loops running over 0..=x_num and 0..=z_num
MatricesPushedInclusive(s) == (s.x_num + 1) * (s.z_num + 1)

\* number of matrices pushed by: for i in 0..x_num { for j in 0..z_num { push } }
MatricesPushed(s) == s.x_num * s.z_num

\* update writing the surface generated before simple_surface.t is set
MultiUpdateStaleSurface(s, dt) ==
    LET dt1 == F32MulSecs(s.rotation_speed, dt)
        n   == MatricesPushed(s)
        d1  == create_vertices(SimpleSurfaceNew(s.simple_surface))
        s2  == [s EXCEPT !.simple_surface.t =
                             F32MulSecs(s.animation_speed, dt)]
    IN  [state |-> s2,
         calls |-> <<Call("create_model_mat", <<dt1, n>>),
                     Call("write_uniform", <<1, 0, 64 * n>>),
                     Call("write_uniform", <<2, 0, 64 * n>>),
                     Call("write_uniform", <<0, 0, 64>>)>>
                   \o WriteVertexBuffers(d1)]

MultiUpdate(s, dt) ==
    LET dt1 == F32MulSecs(s.rotation_speed, dt)
        n   == MatricesPushed(s)
        d1  == create_vertices(SimpleSurfaceNew(s.simple_surface))
        s1  == IF s.recreate_buffers
               THEN [s EXCEPT !.indices_lens = <<d1[3], d1[4]>>,
                              !.recreate_buffers = FALSE]
               ELSE s
        c1  == IF s.recreate_buffers THEN RecreateBuffers(d1) ELSE <<>>
        \* update vertex buffer for every frame
        s2  == [s1 EXCEPT !.simple_surface.t =
                              F32MulSecs(s.animation_speed, dt)]
        d2  == create_vertices(SimpleSurfaceNew(s2.simple_surface))
    IN  [state |-> s2,
         calls |-> <<Call("create_model_mat", <<dt1, n>>),
                     Call("write_uniform", <<1, 0, 64 * n>>),
                     Call("write_uniform", <<2, 0, 64 * n>>),
                     Call("write_uniform", <<0, 0, 64>>)>>
                   \o c1 \o WriteVertexBuffers(d2)]

update(ex, s, dt, t, random) ==
    IF ex = "parametric" THEN ParametricUpdate(s, dt, t, random)
    ELSE MultiUpdate(s, dt)

-----------------------------------------------------------------------------
(* State::render *)

\* draw_indexed(0..index_count, 0, 0..instances) with the pipeline, vertex
\* buffer, index buffer and the two bind groups that were set before it
Draw(pipeline, vb, ib, bg0, bg1, index_count, instances) ==
    Call("draw_indexed", <<pipeline, vb, ib, bg0, bg1, index_count, instances>>)

Instances(ex, s) == IF ex = "parametric" THEN 1 ELSE s.objects_count

\* the mapping with the names of modes 0 and 2 exchanged
PlotTypeNameSwapped(p) ==
    IF p = 1 THEN "shape_only" ELSE IF p = 0 THEN "wireframe_only" ELSE "both"

PlotTypeName(p) ==
    IF p = 1 THEN "shape_only" ELSE IF p = 2 THEN "wireframe_only" ELSE "both"

Draws(ex, s) ==
    LET plot_type == PlotTypeName(s.plot_type)
    IN  (IF plot_type = "shape_only" \/ plot_type = "both"
         THEN <<Draw(0, 0, 0, 0, 1, s.indices_lens[1], Instances(ex, s))>>
         ELSE <<>>)
        \o
        (IF plot_type = "wireframe_only" \/ plot_type = "both"
         THEN <<Draw(1, 1, 1, 2, 3, s.indices_lens[2], Instances(ex, s))>>
         ELSE <<>>)

\* surface is the outcome of get_current_texture()?
render(ex, s, surface) ==
    IF surface # "Ok"
    THEN [result |-> surface, calls |-> <<>>]
    ELSE [result |-> "Ok",
          calls  |-> <<Call("begin_render_pass", <<>>)>> \o Draws(ex, s)
                     \o <<Call("submit", <<>>), Call("present", <<>>)>>]

-----------------------------------------------------------------------------
(* Application::window_event *)

Outcome(st, cs, ex, rd) ==
    [state |-> st, calls |-> cs, exit |-> ex, redraw |-> rd]

\* the match with OutOfMemory falling into the Lost | Outdated arm
RenderRecoveryNoExit(s, result) ==
    IF result \in {"Lost", "Outdated", "OutOfMemory"}
    THEN LET r == resize(s, s.size)
         IN  Outcome(r.state,
                     <<Call("resize", <<s.size.width, s.size.height>>)>>
                         \o r.calls,
                     FALSE, FALSE)
    ELSE Outcome(s, <<>>, FALSE, FALSE)

\* the match on the result of State::render
RenderRecovery(s, result) ==
    CASE result = "Ok" -> Outcome(s, <<>>, FALSE, FALSE)
      [] result \in {"Lost", "Outdated"} ->
            LET r == resize(s, s.size)
            IN  Outcome(r.state,
                        <<Call("resize", <<s.size.width, s.size.height>>)>>
                            \o r.calls,
                        FALSE, FALSE)
      [] result = "OutOfMemory" -> Outcome(s, <<Call("exit", <<>>)>>, TRUE, FALSE)
      [] result = "Timeout" -> Outcome(s, <<>>, FALSE, FALSE)
      [] result = "Other" -> Outcome(s, <<>>, FALSE, FALSE)

\* the elapsed time taken from the start of the clock
FrameTimeSinceBoot(start, t) == t

\* now - self.render_start_time.unwrap_or(now)
FrameTime(start, t) == t - (IF start = <<>> THEN t ELSE start[1])

\* the frame handler without window().request_redraw()
HandleRedrawOnce(ex, s, start, t, random, surface) ==
    LET dt == FrameTime(start, t)
        Matched(u, r, rec) ==
            Outcome(rec.state,
                    <<Call("update", <<dt>>)>>
                        \o u.calls \o <<Call("render", <<>>)>> \o r.calls
                        \o rec.calls,
                    rec.exit, FALSE)
        Rendered(u, r) == Matched(u, r, RenderRecovery(u.state, r.result))
        Updated(u) == Rendered(u, render(ex, u.state, surface))
    IN  Updated(update(ex, s, dt, t, random))

HandleRedraw(ex, s, start, t, random, surface) ==
    LET dt == FrameTime(start, t)
        Matched(u, r, rec) ==
            Outcome(rec.state,
                    <<Call("request_redraw", <<>>), Call("update", <<dt>>)>>
                        \o u.calls \o <<Call("render", <<>>)>> \o r.calls
                        \o rec.calls,
                    rec.exit, TRUE)
        Rendered(u, r) == Matched(u, r, RenderRecovery(u.state, r.result))
        Updated(u) == Rendered(u, render(ex, u.state, surface))
    IN  Updated(update(ex, s, dt, t, random))

\* app is Application.state, start is Application.render_start_time
window_event(ex, app, start, t, random, e) ==
    IF app = <<>> THEN Outcome(app, <<>>, FALSE, FALSE)
    ELSE
    LET s == app[1]
        \* the match on the event, reached when input returned false
        Matched(o) ==
            Outcome(<<o.state>>, <<Call("input", <<0>>)>> \o o.calls,
                    o.exit, o.redraw)
        AfterInput(i) ==
            IF i.handled
            THEN Outcome(<<i.state>>, <<Call("input", <<1>>)>>, FALSE, FALSE)
            ELSE Matched(
                 CASE e.kind = "CloseRequested" ->
                        Outcome(s, <<Call("exit", <<>>)>>, TRUE, FALSE)
                   [] e.kind = "KeyboardInput" /\ e.physical_key = "Escape"
                        /\ e.state = "Pressed" ->
                        Outcome(s, <<Call("exit", <<>>)>>, TRUE, FALSE)
                   [] e.kind = "Resized" ->
                        LET r == resize(s, Size(e.width, e.height))
                        IN  Outcome(r.state,
                                    <<Call("resize", <<e.width, e.height>>)>>
                                        \o r.calls,
                                    FALSE, FALSE)
                   [] e.kind = "RedrawRequested" ->
                        HandleRedraw(ex, s, start, t, random, e.surface)
                   [] OTHER -> Outcome(s, <<>>, FALSE, FALSE))
    IN  AfterInput(input(ex, s, e))

-----------------------------------------------------------------------------
(* The event loop *)

Examples == {"parametric", "multi"}
SampleCounts == {1, 4}

\* the inner size of a new window
DefaultWindow == Size(MaxDim, 1)
ResizedEvents == {Resized(w, h) : w \in 0 .. MaxDim, h \in 0 .. MaxDim}

\* logical keys are named as winit names them; "x" stands for an unbound key
ModeKeys == {"Space", "Control", "Shift", "Alt"}
SpeedKeys(ex) == IF ex = "parametric" THEN {"e", "d"} ELSE {"q", "a", "w", "s"}
ResolutionKeys(ex) == IF ex = "parametric" THEN {"q", "a", "w", "s"} ELSE {}

Pressed(physical, logical) == KeyboardInput(physical, logical, "Pressed")
Released(physical, logical) == KeyboardInput(physical, logical, "Released")

\* the key events of Spec: Space, Escape, an unbound key, and the physical
\* Escape key carrying another logical key
AppKeyEvents ==
    {Pressed("Space", "Space"), Pressed("KeyX", "x"),
     Pressed("Escape", "Escape"), Pressed("Escape", "Space"),
     Pressed("Escape", "x"),
     Released("Escape", "Escape"), Released("Space", "Space")}

SurfaceTypes == (0 .. MaxSurfaceType) \cup {22}
MaxSpeed == F32One + MaxSpeedUps * F32Tenth

\* the key presses the environment makes: counters and speeds stay in bounds
InBounds(ex, s, e) ==
    LET Within(s1) ==
            /\ s1.rotation_speed <= MaxSpeed
            /\ ex = "multi" => s1.animation_speed <= MaxSpeed
            /\ ex = "parametric" =>
                  /\ s1.parametric_surface.u_resolution <= MaxRes
                  /\ s1.parametric_surface.v_resolution <= MaxRes
                  /\ s1.parametric_surface.surface_type \in SurfaceTypes
    IN  Within(input(ex, s, e).state)

\* Application::new
InitApp ==
    /\ example \in Examples
    /\ sample_count \in SampleCounts
    /\ state = <<>>
    /\ render_start_time = <<>>
    /\ now = 0
    /\ redraw_requested = FALSE
    /\ exit_requested = FALSE
    /\ running = TRUE
    /\ frame = 0
    /\ event = NoEvent
    /\ calls = <<>>

Init ==
    /\ InitApp
    /\ ss_data = NoSurface
    /\ returned = <<>>

\* resumed setting render_start_time only while it is None
ResumedKeepsStartTime ==
    /\ running
    /\ \E ures \in DefaultResolutions, vres \in DefaultResolutions :
          state' = <<IF example = "parametric"
                     THEN ParametricNew(DefaultWindow, sample_count, now,
                                        ures, vres)
                     ELSE MultiNew(DefaultWindow, sample_count)>>
    /\ render_start_time' =
          IF render_start_time = <<>> THEN <<now>> ELSE render_start_time
    /\ redraw_requested' = FALSE
    /\ event' = [NoEvent EXCEPT !.kind = "Resumed"]
    /\ calls' = <<>>
    /\ UNCHANGED <<ss_data, returned, example, sample_count, now, exit_requested, running, frame>>

\* Application::resumed: a window is created, then the State
Resumed ==
    /\ running
    /\ \E ures \in DefaultResolutions, vres \in DefaultResolutions :
          state' = <<IF example = "parametric"
                     THEN ParametricNew(DefaultWindow, sample_count, now,
                                        ures, vres)
                     ELSE MultiNew(DefaultWindow, sample_count)>>
    /\ render_start_time' = <<now>>
    /\ redraw_requested' = FALSE
    /\ event' = [NoEvent EXCEPT !.kind = "Resumed"]
    /\ calls' = <<>>
    /\ UNCHANGED <<ss_data, returned, example, sample_count, now, exit_requested, running, frame>>

\* Application::about_to_wait
AboutToWait ==
    /\ running
    /\ redraw_requested' = IF state # <<>> THEN TRUE ELSE redraw_requested
    /\ event' = [NoEvent EXCEPT !.kind = "AboutToWait"]
    /\ calls' = IF state # <<>> THEN <<Call("request_redraw", <<>>)>> ELSE <<>>
    /\ UNCHANGED <<ss_data, returned, example, sample_count, state, render_start_time, now,
                   exit_requested, running, frame>>

\* window_event is called for the events of the window made by resumed;
\* delivering RedrawRequested consumes the pending redraw request
Deliver(e, random) ==
    /\ running
    /\ state # <<>>
    /\ InBounds(example, state[1], e)
    /\ \E o \in {window_event(example, state, render_start_time, now,
                              random, e)} :
           /\ state' = o.state
           /\ calls' = o.calls
           /\ exit_requested' = (exit_requested \/ o.exit)
           /\ redraw_requested' =
                 IF e.kind = "RedrawRequested" THEN o.redraw
                 ELSE (redraw_requested \/ o.redraw)
    /\ frame' = IF e.kind = "RedrawRequested" THEN 1 - frame ELSE frame
    /\ event' = e
    /\ UNCHANGED <<ss_data, returned, example, sample_count, render_start_time, now, running>>

\* the random surface type matters only to a frame that makes a timed change
RandomDraws(s, t) ==
    IF example = "parametric" /\ t - s.t0 >= TimerPeriod
    THEN SurfaceTypes ELSE {0}

WindowEvent ==
    \E e \in AppKeyEvents \cup ResizedEvents \cup {CloseRequested, Focused} :
        Deliver(e, 0)

Redraw ==
    /\ state # <<>>
    /\ \E surface \in SurfaceResults, random \in RandomDraws(state[1], now) :
          Deliver(RedrawRequested(surface), random)

\* time passes between two handlers
TickTo(max) ==
    /\ running
    /\ now < max
    /\ now' = now + 1
    /\ event' = NoEvent
    /\ calls' = <<>>
    /\ UNCHANGED <<ss_data, returned, example, sample_count, state, render_start_time,
                   redraw_requested, exit_requested, running, frame>>

Tick == TickTo(MaxTime)

\* run_app returns once exit has been requested
LoopExit ==
    /\ running
    /\ exit_requested
    /\ running' = FALSE
    /\ event' = NoEvent
    /\ calls' = <<>>
    /\ UNCHANGED <<ss_data, returned, example, sample_count, state, render_start_time, now,
                   redraw_requested, exit_requested, frame>>

Next == Resumed \/ AboutToWait \/ WindowEvent \/ Redraw \/ Tick \/ LoopExit

Spec == Init /\ [][Next]_vars


-----------------------------------------------------------------------------
(* The mode and resolution keys: SpecMode *)

KeyPress ==
    \E k \in ModeKeys \cup ResolutionKeys(example) \cup {"x"} :
        Deliver(Pressed(k, k), 0)

KeyRelease == Deliver(Released("Space", "Space"), 0)

Frame == \E surface \in {"Ok", "Timeout"} : Deliver(RedrawRequested(surface), 0)

Resize == Deliver(Resized(1, MaxDim), 0)

InitMode == Init /\ sample_count = 1

NextMode == Resumed \/ KeyPress \/ KeyRelease \/ Frame \/ Resize

SpecMode == InitMode /\ [][NextMode]_vars

-----------------------------------------------------------------------------
(* The speed keys: SpecSpeed *)

SpeedKeyPress == \E k \in SpeedKeys(example) : Deliver(Pressed(k, k), 0)

OtherKeyPress == \E k \in {"Space", "x"} : Deliver(Pressed(k, k), 0)

NextSpeed == Resumed \/ SpeedKeyPress \/ OtherKeyPress \/ Frame

SpecSpeed == InitMode /\ [][NextSpeed]_vars

-----------------------------------------------------------------------------
(* The frame loop under the event loop's scheduling: LiveSpec *)

Quit == Deliver(CloseRequested, 0)

SpacePress == Deliver(Pressed("Space", "Space"), 0)

NextLoop ==
    Resumed \/ AboutToWait \/ Redraw \/ Resize \/ SpacePress \/ Quit \/ LoopExit

\* winit delivers RedrawRequested to a window whose redraw was requested, and
\* calls about_to_wait at the end of every iteration of the loop.  Only the
\* handling of RedrawRequested changes frame, so FrameDue is the delivery of a
\* requested redraw.
FrameDue ==
    /\ running
    /\ state # <<>>
    /\ redraw_requested
    /\ frame' = 1 - frame

LiveSpec ==
    InitMode /\ [][NextLoop]_vars /\ SF_frame(FrameDue) /\ WF_vars(AboutToWait)

-----------------------------------------------------------------------------
(* window_event before resumed: SpecStart *)

\* window_event called while Application.state is None
EarlyEvent ==
    /\ running
    /\ state = <<>>
    /\ \E e \in AppKeyEvents \cup ResizedEvents \cup {CloseRequested, Focused}
                \cup {RedrawRequested(surface) : surface \in SurfaceResults} :
          /\ \E o \in {window_event(example, state, render_start_time, now,
                                    0, e)} :
                /\ state' = o.state
                /\ calls' = o.calls
                /\ exit_requested' = (exit_requested \/ o.exit)
                /\ redraw_requested' = (redraw_requested \/ o.redraw)
          /\ event' = e
    /\ UNCHANGED <<ss_data, returned, example, sample_count, render_start_time, now, running,
                   frame>>

NextStart ==
    \/ Resumed \/ EarlyEvent \/ AboutToWait \/ Redraw \/ Resize \/ SpacePress
    \/ Quit \/ Tick \/ LoopExit

SpecStart == InitMode /\ [][NextStart]_vars

-----------------------------------------------------------------------------
(* One call of create_vertices: SpecVertices *)

\* the entries of a list: a position, normal or color is one of two values
Entries == {0, 1}
Lists == UNION {[1 .. n -> Entries] : n \in 0 .. MaxLen}
IndexLists == {<<>>, <<0, 1, 0>>, <<1>>}

InitVertices ==
    /\ InitApp
    /\ example = "parametric"
    /\ sample_count = 1
    /\ ss_data \in {SurfaceOutput(p, n, c, c2, i, i2) :
                        p \in Lists, n \in Lists, c \in Lists, c2 \in Lists,
                        i \in IndexLists, i2 \in IndexLists}
    /\ returned = <<>>

CreateVertices ==
    /\ returned = <<>>
    /\ returned' = <<create_verticesOutcome(ss_data)>>
    /\ UNCHANGED <<ss_data, example, sample_count, state, render_start_time,
                   now, redraw_requested, exit_requested, running, frame,
                   event, calls>>

NextVertices == CreateVertices

SpecVertices == InitVertices /\ [][NextVertices]_vars

-----------------------------------------------------------------------------
(* Window events and frames at one instant: SpecEvents *)

NextEvents == Resumed \/ WindowEvent \/ Frame \/ LoopExit

SpecEvents == Init /\ [][NextEvents]_vars

-----------------------------------------------------------------------------
(* The buffer flags of the parametric example: SpecBuffers *)

BufferKeyPress ==
    \E k \in {"Control", "Shift", "q", "a", "w"} : Deliver(Pressed(k, k), 0)

InitBuffers == InitMode /\ example = "parametric"

NextBuffers == Resumed \/ BufferKeyPress \/ Frame

SpecBuffers == InitBuffers /\ [][NextBuffers]_vars

-----------------------------------------------------------------------------
(* The timed shape change and the animation clock: SpecTimer *)

\* resumed is called once, when the application starts
Start == state = <<>> /\ Resumed

TimerKeyPress == \E k \in {"Control", "Alt"} : Deliver(Pressed(k, k), 0)

FrameOk ==
    /\ state # <<>>
    /\ \E random \in RandomDraws(state[1], now) :
          Deliver(RedrawRequested("Ok"), random)

TickClock == TickTo(MaxClock)

NextTimer == Start \/ TimerKeyPress \/ FrameOk \/ TickClock

SpecTimer == InitMode /\ [][NextTimer]_vars

-----------------------------------------------------------------------------
(* Properties *)

CallsNamed(ops) == SelectSeq(calls, LAMBDA c : c.op \in ops)
HasCall(c) == \E i \in DOMAIN calls : calls[i] = c
Position(op) == CHOOSE i \in DOMAIN calls : calls[i].op = op
IsKeyPress(e, k) ==
    e.kind = "KeyboardInput" /\ e.state = "Pressed" /\ e.logical_key = k
\* the logical keys matched by the example's State::input
BoundKeys(ex) ==
    IF ex = "parametric"
    THEN {"Space", "Control", "Shift", "Alt", "q", "a", "w", "s", "e", "d"}
    ELSE {"Space", "Control", "Alt", "q", "a", "w", "s"}

\* C1: after a RedrawRequested has been handled, the resize and exit calls it
\* made are decided by what render returned: none for Ok, Timeout and Other;
\* exactly one resize with State.size() and no exit for Lost and Outdated;
\* exactly one exit and no resize for OutOfMemory.
C1_RenderOutcomeDecidesRecovery ==
    event.kind = "RedrawRequested" =>
        LET size     == state[1].size
            recovery == CallsNamed({"resize", "exit"})
        IN  /\ event.surface \in {"Ok", "Timeout", "Other"} => recovery = <<>>
            /\ event.surface \in {"Lost", "Outdated"} =>
                  recovery = <<Call("resize", <<size.width, size.height>>)>>
            /\ event.surface = "OutOfMemory" =>
                  recovery = <<Call("exit", <<>>)>> /\ exit_requested

C1_Witness ==
    /\ event.kind = "RedrawRequested"
    /\ event.surface = "Outdated"
    /\ HasCall(Call("resize", <<1, 2>>))
    /\ ~exit_requested

\* C2: a RedrawRequested whose render returned Lost or Outdated has called
\* surface.configure with the stored size after the render, and the stored
\* size of every State has a positive width and height.
C2_LostSurfaceReconfigured ==
    state # <<>> =>
        LET size == state[1].size
        IN  /\ size.width > 0 /\ size.height > 0
            /\ (event.kind = "RedrawRequested"
                    /\ event.surface \in {"Lost", "Outdated"}) =>
                  \E i \in DOMAIN calls :
                      /\ calls[i] = Call("configure", <<size.width, size.height>>)
                      /\ i > Position("render")

C2_Witness ==
    /\ event.kind = "RedrawRequested"
    /\ event.surface = "Lost"
    /\ HasCall(Call("configure", <<2, 1>>))
    /\ sample_count = 4
    /\ HasCall(Call("create_msaa_texture_view", <<2, 1>>))

\* C3 as stated: every Resized(new_size) configures the surface with new_size.
C3_EveryResizeConfigures ==
    event.kind = "Resized" =>
        /\ HasCall(Call("configure", <<event.width, event.height>>))
        /\ state[1].config = Size(event.width, event.height)

\* C3: every Resized(new_size) with a positive width and height configures the
\* surface once, with config.width = new_size.width and config.height =
\* new_size.height.
C3_PositiveResizeConfigures ==
    (event.kind = "Resized" /\ event.width > 0 /\ event.height > 0) =>
        /\ CallsNamed({"configure"})
              = <<Call("configure", <<event.width, event.height>>)>>
        /\ state[1].config = Size(event.width, event.height)

C3_Witness ==
    /\ event = Resized(1, 2)
    /\ HasCall(Call("configure", <<1, 2>>))
    /\ state[1].config = Size(1, 2)

\* the cycle 1 (shape only) -> 2 (wireframe only) -> 0 (both) -> 1
PlotCycle(p) == CASE p = 1 -> 2 [] p = 2 -> 0 [] p = 0 -> 1

\* C4: plot_type is 1 in a new State and always in {0, 1, 2}; a Space press
\* moves it along 1 -> 2 -> 0 -> 1, no other event changes it, and three
\* Space presses from any reachable mode lead back to it.
C4_PlotTypeCycle ==
    /\ [](state # <<>> =>
            LET p == state[1].plot_type
            IN  /\ p \in {0, 1, 2}
                /\ NextPlotType(NextPlotType(NextPlotType(p))) = p)
    /\ [][state' # <<>> =>
            IF event'.kind = "Resumed" THEN state'[1].plot_type = 1
            ELSE IF IsKeyPress(event', "Space")
                 THEN state'[1].plot_type = PlotCycle(state[1].plot_type)
                 ELSE state'[1].plot_type = state[1].plot_type]_vars

C4_Witness ==
    /\ IsKeyPress(event, "Space")
    /\ state[1].plot_type = 0

\* C5: a frame whose render succeeded issued one or two indexed draws: the
\* solid draw (pipeline 0, vertex buffer 0, index buffer 0, bind groups 0 and
\* 1, indices_lens[0] indices) iff plot_type is 1 or 0, then the wireframe
\* draw (pipeline 1, vertex buffer 1, index buffer 1, bind groups 2 and 3,
\* indices_lens[1] indices) iff plot_type is 2 or 0.
C5_DrawsFollowPlotType ==
    (event.kind = "RedrawRequested" /\ event.surface = "Ok") =>
        LET s     == state[1]
            n     == IF example = "parametric" THEN 1 ELSE s.objects_count
            solid == Call("draw_indexed", <<0, 0, 0, 0, 1, s.indices_lens[1], n>>)
            wire  == Call("draw_indexed", <<1, 1, 1, 2, 3, s.indices_lens[2], n>>)
            draws == CallsNamed({"draw_indexed"})
        IN  /\ Len(draws) \in {1, 2}
            /\ draws = (IF s.plot_type \in {1, 0} THEN <<solid>> ELSE <<>>)
                       \o (IF s.plot_type \in {2, 0} THEN <<wire>> ELSE <<>>)

C5_Witness ==
    /\ event.kind = "RedrawRequested"
    /\ event.surface = "Ok"
    /\ state[1].plot_type = 0
    /\ Len(CallsNamed({"draw_indexed"})) = 2
    /\ example = "parametric"
    /\ state[1].indices_lens = <<6 * 9 * 8, 4 * 9 * 8>>

\* C6 as stated: CloseRequested and every press of the physical Escape key
\* request exit.
C6_EscapeAlwaysExits ==
    (event.kind = "CloseRequested"
        \/ (event.kind = "KeyboardInput" /\ event.physical_key = "Escape"
                /\ event.state = "Pressed")) =>
        HasCall(Call("exit", <<>>)) /\ exit_requested

\* C6: CloseRequested, and every press of the physical Escape key whose
\* logical key is not a bound key of the example, requests exit.
C6_UnboundEscapeExits ==
    (event.kind = "CloseRequested"
        \/ (event.kind = "KeyboardInput" /\ event.physical_key = "Escape"
                /\ event.state = "Pressed"
                /\ event.logical_key \notin BoundKeys(example))) =>
        HasCall(Call("exit", <<>>)) /\ exit_requested

C6_Witness ==
    /\ event = Pressed("Escape", "Escape")
    /\ HasCall(Call("exit", <<>>))
    /\ exit_requested
    /\ state[1].plot_type = 0
    /\ state[1].size = Size(1, 1)

\* C7: the update and render calls of a handled RedrawRequested are one
\* update(dt) followed by one render, with dt = now - render_start_time
\* (0 when it is None); no other step calls update or render.
C7_OneUpdateThenRender ==
    LET dt == IF render_start_time = <<>> THEN 0
              ELSE now - render_start_time[1]
    IN  CallsNamed({"update", "render"}) =
            IF event.kind = "RedrawRequested"
            THEN <<Call("update", <<dt>>), Call("render", <<>>)>>
            ELSE <<>>

C7_Witness ==
    /\ event.kind = "RedrawRequested"
    /\ HasCall(Call("update", <<1>>))
    /\ render_start_time = <<0>>

Parity == {0, 1}

\* C8: a handled RedrawRequested has called request_redraw before update, so
\* a redraw is pending whatever render returned; about_to_wait requests a
\* redraw iff the state exists; and every handled frame is followed by
\* another handled frame unless exit is requested.
C8_FrameLoopSustained ==
    /\ [](event.kind = "RedrawRequested" =>
            /\ redraw_requested
            /\ HasCall(Call("request_redraw", <<>>))
            /\ Position("request_redraw") < Position("update"))
    /\ [](event.kind = "AboutToWait" =>
            /\ HasCall(Call("request_redraw", <<>>)) <=> state # <<>>
            /\ state # <<>> => redraw_requested)
    /\ \A b \in Parity :
          [](event.kind = "RedrawRequested" /\ frame = b
                => <>(frame # b \/ exit_requested))

C8_Witness ==
    /\ event.kind = "RedrawRequested"
    /\ event.surface = "Timeout"
    /\ redraw_requested
    /\ frame = 0
    /\ ~exit_requested


\* one f32 step of 0.1 from x up (sign 1) or down (sign -1) to y, within the
\* rounding of an f32 below 2.0
F32Ulp == 2^4
IsTenthStep(x, y, sign) ==
    LET d == y - x - sign * F32Tenth
    IN  d <= F32Ulp /\ 0 - d <= F32Ulp

SpeedAfter(x, y, up, down) ==
    IF IsKeyPress(event', up) THEN IsTenthStep(x, y, 1)
    ELSE IF IsKeyPress(event', down)
         THEN IF x < F32Tenth THEN y = 0 ELSE IsTenthStep(x, y, -1)
         ELSE y = x

\* C9: rotation_speed, and animation_speed of the multiple-surfaces example,
\* are 1.0 in a new State, change only by a step of 0.1 on their own key pair
\* ('e'/'d'; 'w'/'s' and 'q'/'a'), and are never negative: a decrement from
\* below 0.1 leaves exactly 0.
C9_SpeedsNeverNegative ==
    /\ [](state # <<>> =>
            /\ state[1].rotation_speed >= 0
            /\ example = "multi" => state[1].animation_speed >= 0)
    /\ [][state' # <<>> =>
            IF event'.kind = "Resumed"
            THEN /\ state'[1].rotation_speed = F32One
                 /\ example = "multi" => state'[1].animation_speed = F32One
            ELSE IF example = "parametric"
                 THEN SpeedAfter(state[1].rotation_speed,
                                 state'[1].rotation_speed, "e", "d")
                 ELSE /\ SpeedAfter(state[1].rotation_speed,
                                    state'[1].rotation_speed, "w", "s")
                      /\ SpeedAfter(state[1].animation_speed,
                                    state'[1].animation_speed, "q", "a")]_vars

C9_Witness ==
    /\ example = "multi"
    /\ IsKeyPress(event, "a")
    /\ state[1].animation_speed = 0
    /\ state[1].rotation_speed > F32One

ResolutionAfter(r, up, down) ==
    IF IsKeyPress(event', up) THEN r + 1
    ELSE IF IsKeyPress(event', down) THEN (IF r > 8 THEN r - 1 ELSE 8)
         ELSE r

\* C10: in the parametric example u_resolution and v_resolution are always at
\* least 8; 'q'/'w' add 1, 'a'/'s' subtract 1 but leave 8 at 8, no other
\* event changes them, and each of the four presses sets recreate_buffers.
C10_ResolutionFloor ==
    /\ []((state # <<>> /\ example = "parametric") =>
            /\ state[1].parametric_surface.u_resolution >= 8
            /\ state[1].parametric_surface.v_resolution >= 8)
    /\ [][(state' # <<>> /\ example = "parametric"
              /\ event'.kind # "Resumed") =>
            LET ps  == state[1].parametric_surface
                ps1 == state'[1].parametric_surface
            IN  /\ ps1.u_resolution = ResolutionAfter(ps.u_resolution, "q", "a")
                /\ ps1.v_resolution = ResolutionAfter(ps.v_resolution, "w", "s")
                /\ (\E k \in {"q", "a", "w", "s"} : IsKeyPress(event', k))
                      => state'[1].recreate_buffers]_vars

C10_Witness ==
    /\ example = "parametric"
    /\ IsKeyPress(event, "a")
    /\ state[1].parametric_surface.u_resolution = 8
    /\ state[1].parametric_surface.v_resolution = 9
    /\ state[1].recreate_buffers

-----------------------------------------------------------------------------
(* The vertex data written by update *)

IsFrame(e) == e.kind = "RedrawRequested"
VertexWrites(cs) == SelectSeq(cs, LAMBDA c : c.op = "write_vertex")
\* write_buffer of vertex_buffers[0] and vertex_buffers[1] with one surface
BothVertexBuffers(mesh) ==
    <<Call("write_vertex", <<0>> \o mesh), Call("write_vertex", <<1>> \o mesh)>>
\* the surface generated from a ParametricSurface
ParametricMesh(ps) ==
    <<ps.surface_type, ps.colormap_direction, ps.u_resolution, ps.v_resolution>>
\* the rewrite made by the update_buffers branch of update
DirtyWrites(s, s1) ==
    IF s.update_buffers
    THEN BothVertexBuffers(ParametricMesh(s1.parametric_surface)) ELSE <<>>

\* C11 as stated: every update of the parametric example that runs 5 seconds
\* or more after t0 draws a surface type, rewrites both vertex buffers and
\* resets t0 to the current time.
C11_EveryFiveSeconds ==
    [][(example = "parametric" /\ state # <<>> /\ IsFrame(event')
            /\ now - state[1].t0 >= 5) =>
          /\ state'[1].t0 = now
          /\ state'[1].parametric_surface.surface_type \in 0 .. 22
          /\ VertexWrites(calls') =
                BothVertexBuffers(ParametricMesh(state'[1].parametric_surface))
                    \o DirtyWrites(state[1], state'[1])]_vars

\* C11: an update of the parametric example that runs 5 seconds or more after
\* t0 while random_shape_change is 1 sets surface_type to a value of 0..22,
\* rewrites both vertex buffers with the regenerated surface and resets t0 to
\* the current time; any other update leaves surface_type and t0 as they were
\* and makes no timed rewrite.
C11_TimedChangeWhenEnabled ==
    [][(example = "parametric" /\ state # <<>> /\ IsFrame(event')) =>
          LET s    == state[1]
              s1   == state'[1]
              mesh == ParametricMesh(s1.parametric_surface)
          IN  IF now - s.t0 >= 5 /\ s.random_shape_change = 1
              THEN /\ s1.t0 = now
                   /\ s1.parametric_surface.surface_type \in 0 .. 22
                   /\ VertexWrites(calls') =
                         BothVertexBuffers(mesh) \o DirtyWrites(s, s1)
              ELSE /\ s1.t0 = s.t0
                   /\ s1.parametric_surface.surface_type
                         = s.parametric_surface.surface_type
                   /\ VertexWrites(calls') = DirtyWrites(s, s1)]_vars

C11_Witness ==
    /\ example = "parametric"
    /\ IsFrame(event)
    /\ now = 6
    /\ state[1].t0 = 6
    /\ state[1].parametric_surface.surface_type = 22
    /\ VertexWrites(calls) =
          BothVertexBuffers(ParametricMesh(state[1].parametric_surface))

\* the surface generated from a SimpleSurface
SimpleMesh(ss) == <<ss.surface_type, ss.colormap_direction, ss.t>>

\* C12: in the multiple-surfaces example every update sets simple_surface.t to
\* animation_speed * dt and writes both vertex buffers, once each, with the
\* surface generated from the surface_type, colormap_direction and t of that
\* moment; a Control or Alt press changes surface_type or colormap_direction
\* by (x + 1) mod 3 and writes nothing itself, and no flag decides the write.
C12_VertexDataEveryFrame ==
    [][(example = "multi" /\ state # <<>> /\ event'.kind # "Resumed") =>
          LET ss  == state[1].simple_surface
              ss1 == state'[1].simple_surface
              dt  == now - render_start_time[1]
          IN  IF IsFrame(event')
              THEN /\ ss1.t = F32MulSecs(state[1].animation_speed, dt)
                   /\ ss1.surface_type = ss.surface_type
                   /\ ss1.colormap_direction = ss.colormap_direction
                   /\ VertexWrites(calls') = BothVertexBuffers(SimpleMesh(ss1))
              ELSE /\ VertexWrites(calls') = <<>>
                   /\ ss1.t = ss.t
                   /\ ss1.surface_type =
                         IF IsKeyPress(event', "Control")
                         THEN (ss.surface_type + 1) % 3 ELSE ss.surface_type
                   /\ ss1.colormap_direction =
                         IF IsKeyPress(event', "Alt")
                         THEN (ss.colormap_direction + 1) % 3
                         ELSE ss.colormap_direction]_vars

C12_Witness ==
    /\ example = "multi"
    /\ IsFrame(event)
    /\ now = 3
    /\ state[1].simple_surface =
          [surface_type |-> 2, colormap_direction |-> 1, t |-> 3 * F32Unit]
    /\ VertexWrites(calls) = BothVertexBuffers(<<2, 1, 3 * F32Unit>>)

-----------------------------------------------------------------------------
(* resize, the state before resumed, and input *)

\* the calls State::resize makes on the surface and the texture views
SurfaceCalls(cs) ==
    SelectSeq(cs, LAMBDA c : c.op \in {"configure", "create_depth_view",
                                       "create_msaa_texture_view"})

\* C13: State.resize with a zero width or a zero height leaves size, config,
\* project_mat, depth_texture_view and msaa_texture_view (and every other
\* field of State) unchanged and calls neither surface.configure nor a view
\* constructor.
C13_ZeroResizeIsNoOp ==
    [][(state # <<>> /\ event'.kind = "Resized"
            /\ (event'.width = 0 \/ event'.height = 0)) =>
          /\ calls' = <<Call("input", <<0>>),
                        Call("resize", <<event'.width, event'.height>>)>>
          /\ SurfaceCalls(calls') = <<>>
          /\ state'[1].size = state[1].size
          /\ state'[1].config = state[1].config
          /\ state'[1].project_mat = state[1].project_mat
          /\ state'[1].depth_texture_view = state[1].depth_texture_view
          /\ state'[1].msaa_texture_view = state[1].msaa_texture_view
          /\ state' = state]_vars

C13_Witness ==
    /\ event = Resized(2, 0)
    /\ state[1].size = Size(1, 2)
    /\ state[1].config = Size(1, 2)
    /\ sample_count = 4
    /\ SurfaceCalls(calls) = <<>>
    /\ calls # <<>>

\* a State as State::new leaves it at time t
IsFresh(ex, s, t) ==
    /\ s.size = DefaultWindow
    /\ s.config = DefaultWindow
    /\ s.plot_type = 1
    /\ s.rotation_speed = F32One
    /\ ~s.recreate_buffers
    /\ ex = "parametric" =>
          /\ s.t0 = t
          /\ s.random_shape_change = 1
          /\ ~s.update_buffers
          /\ s.parametric_surface.surface_type = 0
          /\ s.parametric_surface.colormap_direction = 0
    /\ ex = "multi" =>
          /\ s.animation_speed = F32One
          /\ s.simple_surface =
                [surface_type |-> 0, colormap_direction |-> 0, t |-> 0]

\* C14: Application.state is None at the start and stays None until a resumed
\* call; it is Some after every resumed call and never becomes None again;
\* while it is None no handler makes a call (no input, exit, resize, update,
\* render or request_redraw) and exit is not requested; every resumed call
\* stores a State as State::new makes it and sets render_start_time to the
\* current time.
C14_StateNoneUntilResumed ==
    /\ state = <<>>
    /\ [](state = <<>> =>
            /\ calls = <<>>
            /\ ~exit_requested
            /\ ~redraw_requested
            /\ frame = 0)
    /\ [][/\ (state = <<>> /\ state' # <<>>) => event'.kind = "Resumed"
          /\ state # <<>> => state' # <<>>
          /\ event'.kind = "Resumed" =>
                /\ state' # <<>>
                /\ IsFresh(example, state'[1], now')
                /\ render_start_time' = <<now'>>]_vars

C14_Witness ==
    /\ state = <<>>
    /\ event = Pressed("Escape", "Escape")
    /\ now = 1
    /\ calls = <<>>
    /\ ~exit_requested

IsBoundPress(ex, e) ==
    /\ e.kind = "KeyboardInput"
    /\ e.state = "Pressed"
    /\ e.logical_key \in BoundKeys(ex)

\* every kind of event, with every bound key, an unbound key and Escape
ProbeKeys == BoundKeys("parametric") \cup BoundKeys("multi") \cup {"x", "Escape"}
ProbeEvents ==
    {KeyboardInput(k, k, st) : k \in ProbeKeys, st \in {"Pressed", "Released"}}
        \cup ResizedEvents \cup {CloseRequested, Focused}
        \cup {RedrawRequested(surface) : surface \in SurfaceResults}

\* C15: in every reachable State, input returns true for exactly the key
\* events with state Pressed and a bound logical key, and for any other event
\* returns false with every field unchanged; a handled event makes
\* window_event return with no other call and no exit request, and an
\* unhandled event that is neither Resized nor RedrawRequested leaves the
\* State as it was.
C15_InputConsumesBoundKeys ==
    /\ [](state # <<>> =>
            \A e \in ProbeEvents :
                /\ input(example, state[1], e).handled
                       <=> IsBoundPress(example, e)
                /\ ~IsBoundPress(example, e) =>
                       input(example, state[1], e).state = state[1])
    /\ [](/\ HasCall(Call("input", <<1>>)) <=> IsBoundPress(example, event)
          /\ IsBoundPress(example, event) => calls = <<Call("input", <<1>>)>>)
    /\ [][(state # <<>> /\ event'.kind \notin {"Resumed", "None", "AboutToWait"})
            => /\ IsBoundPress(example, event') =>
                     /\ exit_requested' = exit_requested
                     /\ redraw_requested' = redraw_requested
               /\ (~IsBoundPress(example, event')
                       /\ event'.kind \notin {"Resized", "RedrawRequested"})
                     => /\ state' = state
                        /\ calls'[1] = Call("input", <<0>>)]_vars

C15_Witness ==
    /\ event = Pressed("Escape", "Space")
    /\ calls = <<Call("input", <<1>>)>>
    /\ ~exit_requested
    /\ state[1].plot_type = 2

-----------------------------------------------------------------------------
(* The buffer flags of the parametric example *)

\* the destroy and create calls on vertex and index buffers
BufferLifecycle(cs) ==
    SelectSeq(cs, LAMBDA c : c.op \in {"destroy_vertex", "create_vertex",
                                       "destroy_index", "create_index"})
IndexLifecycle(cs) ==
    SelectSeq(cs, LAMBDA c : c.op \in {"destroy_index", "create_index"})

\* buffer i destroyed, then created from the surface or with n indices
Recreated(i, mesh, n) ==
    <<Call("destroy_vertex", <<i>>), Call("create_vertex", <<i>> \o mesh),
      Call("destroy_index", <<i>>), Call("create_index", <<i, n>>)>>

\* C16: in the parametric example each of 'q', 'a', 'w', 's' sets
\* recreate_buffers; an update that starts with recreate_buffers set destroys
\* and recreates vertex and index buffer 0, then vertex and index buffer 1,
\* from the surface at the current resolution, sets indices_lens to the index
\* counts of the two new index buffers and clears the flag; an update that
\* starts with it clear creates and destroys no buffer and leaves indices_lens
\* unchanged.
C16_RecreateOnResolutionChange ==
    [][(example = "parametric" /\ state # <<>> /\ event'.kind # "Resumed") =>
          LET s    == state[1]
              s1   == state'[1]
              mesh == ParametricMesh(s.parametric_surface)
              made == BufferLifecycle(calls')
          IN  /\ (\E k \in {"q", "a", "w", "s"} : IsKeyPress(event', k))
                    => s1.recreate_buffers
              /\ IsFrame(event') =>
                    /\ ~s1.recreate_buffers
                    /\ s1.parametric_surface.u_resolution
                         = s.parametric_surface.u_resolution
                    /\ s1.parametric_surface.v_resolution
                         = s.parametric_surface.v_resolution
                    /\ IF s.recreate_buffers
                       THEN /\ made = Recreated(0, mesh, s1.indices_lens[1])
                                      \o Recreated(1, mesh, s1.indices_lens[2])
                       ELSE /\ made = <<>>
                            /\ s1.indices_lens = s.indices_lens]_vars

C16_Witness ==
    /\ example = "parametric"
    /\ IsFrame(event)
    /\ state[1].parametric_surface.u_resolution = 9
    /\ state[1].parametric_surface.v_resolution = 8
    /\ HasCall(Call("create_index", <<0, 6 * 9 * 8>>))
    /\ HasCall(Call("create_index", <<1, 4 * 9 * 8>>))
    /\ state[1].indices_lens = <<6 * 9 * 8, 4 * 9 * 8>>
    /\ ~state[1].recreate_buffers

\* what Control and Shift do to the State of the parametric example
DirtyKeys(s, s1, e) ==
    /\ IsKeyPress(e, "Control") =>
          /\ s1.parametric_surface.surface_type
                = (s.parametric_surface.surface_type + 1) % 23
          /\ s1.update_buffers
    /\ IsKeyPress(e, "Shift") =>
          /\ s1.parametric_surface.colormap_direction
                = (s.parametric_surface.colormap_direction + 1) % 3
          /\ s1.update_buffers

\* C17 as stated: the update after a Control or Shift press rewrites both
\* vertex buffers and leaves the index buffers and indices_lens untouched.
C17_DirtyUpdateKeepsIndexBuffers ==
    [][(example = "parametric" /\ state # <<>> /\ event'.kind # "Resumed") =>
          /\ DirtyKeys(state[1], state'[1], event')
          /\ IsFrame(event') =>
                /\ ~state'[1].update_buffers
                /\ ~state'[1].recreate_buffers
                /\ state[1].update_buffers =>
                      /\ VertexWrites(calls') =
                            BothVertexBuffers(
                                ParametricMesh(state'[1].parametric_surface))
                      /\ IndexLifecycle(calls') = <<>>
                      /\ state'[1].indices_lens = state[1].indices_lens]_vars

\* C17: Control and Shift advance surface_type (mod 23) and
\* colormap_direction (mod 3) and set update_buffers; an update that starts
\* with update_buffers set rewrites both vertex buffers with the regenerated
\* surface, and leaves the index buffers and indices_lens untouched unless
\* recreate_buffers is set as well; update_buffers and recreate_buffers are
\* both false after every update.
C17_DirtyUpdateRewritesVertices ==
    [][(example = "parametric" /\ state # <<>> /\ event'.kind # "Resumed") =>
          /\ DirtyKeys(state[1], state'[1], event')
          /\ IsFrame(event') =>
                /\ ~state'[1].update_buffers
                /\ ~state'[1].recreate_buffers
                /\ state[1].update_buffers =>
                      /\ VertexWrites(calls') =
                            BothVertexBuffers(
                                ParametricMesh(state'[1].parametric_surface))
                      /\ ~state[1].recreate_buffers =>
                            /\ IndexLifecycle(calls') = <<>>
                            /\ state'[1].indices_lens
                                  = state[1].indices_lens]_vars

C17_Witness ==
    /\ example = "parametric"
    /\ IsFrame(event)
    /\ state[1].parametric_surface.surface_type = 1
    /\ state[1].parametric_surface.colormap_direction = 2
    /\ VertexWrites(calls) =
          BothVertexBuffers(ParametricMesh(state[1].parametric_surface))
    /\ BufferLifecycle(calls) = <<>>
    /\ ~state[1].update_buffers

-----------------------------------------------------------------------------
(* The timer of the parametric example *)

\* the step made a timed change: its update wrote the vertex buffers once
\* more than the update_buffers branch accounts for
TimedChange(s, s1, e, cs) ==
    IsFrame(e) /\ Len(VertexWrites(cs)) > Len(DirtyWrites(s, s1))

\* C18: in the parametric example t0 is the time of construction in a new
\* State, never lies in the future, and is written afterwards only by a timed
\* change, which happens only when at least 5 seconds have passed since t0
\* and sets t0 to the current time; so the first timed change is at least 5
\* seconds after construction and two timed changes are at least 5 seconds
\* apart, whatever keys are pressed in between.
C18_TimedChangesFiveSecondsApart ==
    /\ []((example = "parametric" /\ state # <<>>) => state[1].t0 <= now)
    /\ [][(example = "parametric" /\ state' # <<>>) =>
            IF event'.kind = "Resumed" THEN state'[1].t0 = now'
            ELSE /\ state # <<>>
                 /\ state'[1].t0 # state[1].t0
                       => TimedChange(state[1], state'[1], event', calls')
                 /\ TimedChange(state[1], state'[1], event', calls') =>
                       /\ now - state[1].t0 >= 5
                       /\ state'[1].t0 = now]_vars

C18_Witness ==
    /\ example = "parametric"
    /\ IsFrame(event)
    /\ render_start_time = <<5>>
    /\ now = 10
    /\ state[1].t0 = 10
    /\ Len(VertexWrites(calls)) = 2

\* C19: in the parametric example random_shape_change is 1 in a new State,
\* always 0 or 1, and changed only by an Alt press, which toggles it; an
\* update that starts while it is 0 makes no timed change and leaves
\* surface_type and t0 as they were; an update that starts while it is 1 and
\* at least 5 seconds after t0 makes the timed change at once.
C19_AltTogglesTimer ==
    /\ []((example = "parametric" /\ state # <<>>) =>
            state[1].random_shape_change \in {0, 1})
    /\ [][(example = "parametric" /\ state' # <<>>) =>
            IF event'.kind = "Resumed" THEN state'[1].random_shape_change = 1
            ELSE
            LET s  == state[1]
                s1 == state'[1]
            IN  /\ s1.random_shape_change =
                      IF IsKeyPress(event', "Alt")
                      THEN 1 - s.random_shape_change
                      ELSE s.random_shape_change
                /\ (IsFrame(event') /\ s.random_shape_change = 0) =>
                      /\ ~TimedChange(s, s1, event', calls')
                      /\ s1.t0 = s.t0
                      /\ s1.parametric_surface.surface_type
                            = s.parametric_surface.surface_type
                /\ (IsFrame(event') /\ s.random_shape_change = 1
                        /\ now - s.t0 >= 5) =>
                      /\ TimedChange(s, s1, event', calls')
                      /\ s1.t0 = now]_vars

C19_Witness ==
    /\ example = "parametric"
    /\ IsFrame(event)
    /\ state[1].random_shape_change = 0
    /\ now - state[1].t0 > 5
    /\ VertexWrites(calls) = <<>>
    /\ state[1].parametric_surface.surface_type = 1

-----------------------------------------------------------------------------
(* The uniform and storage writes of update *)

\* a write_buffer(uniform_buffers[buffer], offset, length bytes)
UniformWrite(buffer, offset, length) ==
    Call("write_uniform", <<buffer, offset, length>>)

\* C20: the uniform and storage writes of every update lie inside the buffer
\* they are made to and no two of them overlap; the multiple-surfaces example
\* builds objects_count = x_num * z_num model matrices and as many normal
\* matrices and writes them as 64 * objects_count bytes at offset 0, which is
\* the size of each storage buffer, and both draws use objects_count
\* instances; the parametric example writes 64 bytes at each of the offsets
\* 0, 64 and 128, which tile its 192-byte vertex uniform buffer.
C20_UniformWritesFitBuffers ==
    (state # <<>> /\ IsFrame(event)) =>
        LET s      == state[1]
            sizes  == UniformBufferSizes(example, s)
            writes == CallsNamed({"write_uniform"})
            draws  == CallsNamed({"draw_indexed"})
        IN  /\ \A i \in DOMAIN writes :
                  LET w == writes[i].args
                  IN  /\ w[1] + 1 \in DOMAIN sizes
                      /\ w[2] >= 0
                      /\ w[3] > 0
                      /\ w[2] + w[3] <= sizes[w[1] + 1]
            /\ \A i, j \in DOMAIN writes :
                  (i < j /\ writes[i].args[1] = writes[j].args[1]) =>
                      \/ writes[i].args[2] + writes[i].args[3]
                            <= writes[j].args[2]
                      \/ writes[j].args[2] + writes[j].args[3]
                            <= writes[i].args[2]
            /\ example = "multi" =>
                  /\ s.objects_count = s.x_num * s.z_num
                  /\ \E c \in {calls[k] : k \in DOMAIN calls} :
                        c.op = "create_model_mat"
                            /\ c.args[2] = s.objects_count
                  /\ writes = <<UniformWrite(1, 0, 64 * s.objects_count),
                                UniformWrite(2, 0, 64 * s.objects_count),
                                UniformWrite(0, 0, 64)>>
                  /\ sizes[2] = 64 * s.objects_count
                  /\ sizes[3] = 64 * s.objects_count
                  /\ \A d \in DOMAIN draws :
                        draws[d].args[7] = s.objects_count
            /\ example = "parametric" =>
                  /\ writes = <<UniformWrite(0, 0, 64), UniformWrite(0, 64, 64),
                                UniformWrite(0, 128, 64)>>
                  /\ sizes[1] = 64 + 64 + 64

C20_Witness ==
    /\ example = "multi"
    /\ IsFrame(event)
    /\ event.surface = "Ok"
    /\ HasCall(UniformWrite(1, 0, 640000))
    /\ HasCall(UniformWrite(2, 0, 640000))
    /\ state[1].plot_type = 0
    /\ Len(CallsNamed({"draw_indexed"})) = 2
    /\ CallsNamed({"draw_indexed"})[2].args[7] = 10000

-----------------------------------------------------------------------------
(* create_vertices *)

\* C21: a call of create_vertices on a surface output with n positions
\* panics if normals, colors or colors2 has fewer than n entries; otherwise it
\* returns two lists of n vertices, vertex i of both having position
\* positions[i] and normal normals[i], of the first color colors[i] and of
\* the second color colors2[i], followed by indices and indices2 unchanged.
C21_VerticesPairUpLists ==
    returned # <<>> =>
        LET n == Len(ss_data.positions)
            r == returned[1]
        IN  IF Len(ss_data.normals) < n \/ Len(ss_data.colors) < n
                  \/ Len(ss_data.colors2) < n
            THEN r.panicked
            ELSE /\ ~r.panicked
                 /\ Len(r.value) = 4
                 /\ Len(r.value[1]) = n
                 /\ Len(r.value[2]) = n
                 /\ \A i \in 1 .. n :
                       /\ r.value[1][i].position = ss_data.positions[i]
                       /\ r.value[1][i].normal = ss_data.normals[i]
                       /\ r.value[1][i].color = ss_data.colors[i]
                       /\ r.value[2][i].position = ss_data.positions[i]
                       /\ r.value[2][i].normal = ss_data.normals[i]
                       /\ r.value[2][i].color = ss_data.colors2[i]
                 /\ r.value[3] = ss_data.indices
                 /\ r.value[4] = ss_data.indices2

C21_Witness ==
    /\ returned # <<>>
    /\ ss_data = SurfaceOutput(<<0, 1>>, <<1, 0>>, <<0, 0>>, <<1, 1>>,
                               <<0, 1, 0>>, <<1>>)
    /\ returned[1] =
          Returns(<<<<Vertex(0, 1, 0), Vertex(1, 0, 0)>>,
                    <<Vertex(0, 1, 1), Vertex(1, 0, 1)>>,
                    <<0, 1, 0>>, <<1>>>>)

====
